---- MODULE Spec2Model ----
(***************************************************************************)
(* FinanceTracker: the Convex functions of convex/transactions.ts          *)
(* (addTransaction, getTransactions, getTransactionSummary,                *)
(* deleteTransaction) over the "transactions" table of the schema, and the *)
(* submit handler of the FinanceTracker form component.                    *)
(***************************************************************************)
EXTENDS Integers, Sequences, FiniteSets, TLC

\* ---------------------------------------------------------------- bounds
\* Number of documents the table ever receives (caps the id counter).
MaxTx == 3
\* Documents inserted while two deleteTransaction calls race.
MaxConcTx == 2
\* Documents inserted through the form.
MaxFormTx == 1

\* ------------------------------------------------------- value domains
\* Identities the authentication collaborator can resolve; None is the
\* null that getAuthUserId returns when no identity resolves.
Users == {"u1", "u2"}
None == "none"
Callers == Users \cup {None}

\* v.union(v.literal("income"), v.literal("expense"))
Types == {"income", "expense"}
\* v.number(): the validator accepts any number, negative and zero included.
Amounts == {-2, 3}
\* v.string()
Categories == {"Food"}
Descriptions == {"Groceries"}
Dates == {"2024-03-01", "2024-03-02"}

\* Arguments the addTransaction validator accepts (the non-positive amount
\* is sent with one of the dates only, to keep the state space small).
AddArgs ==
    {a \in [type : Types, amount : Amounts, category : Categories,
            description : Descriptions, date : Dates] :
        a.amount > 0 \/ a.date = "2024-03-02"}

\* The document every insert of the race scenario stores.
ConcAddArgs == [type : {"expense"}, amount : {3}, category : Categories,
                description : Descriptions, date : {"2024-03-02"}]

\* Clients whose deleteTransaction calls may be in flight at the same time.
Procs == {"p1", "p2"}

\* new Date().toISOString().split('T')[0] on the day of the run.
Today == "2024-03-02"

\* Options of the category <select>: "" (Select category) and the
\* vocabulary of the selected type (one entry of each list is kept).
IncomeCategories == {"Salary"}
ExpenseCategories == {"Food"}

\* Texts the amount <input type="number"> can deliver: the empty string and
\* valid floating-point number strings.
AmountTexts ==
    { <<>>, <<"0">>, <<"1", "2">>, <<"-", "5">>, <<"1", ".", "5">>,
      <<"1", "e", "3">>, <<"1", "e", "9", "9", "9">>,
      <<"1", "e", "-", "9", "9", "9">> }

\* Texts the description <input type="text"> can deliver.
DescriptionTexts == {"", "Groceries"}

\* Messages of the two errors the mutations throw.
Unauthenticated == "User not authenticated"
NotFoundOrUnauthorized == "Transaction not found or unauthorized"

VARIABLES
    table,      \* the "transactions" table: a set of documents
    nextId,     \* number of documents inserted so far (id / creation clock)
    inserted,   \* history: ids in the order the inserts happened
    deleted,    \* history: ids removed by a successful deleteTransaction
    last,       \* the call that was just served, with its outcome
    formData,   \* the form's draft (useState of FinanceTracker)
    toast,      \* the last toast shown
    calls       \* per client: its deleteTransaction call in flight

vars == <<table, nextId, inserted, deleted, last, formData, toast, calls>>
formVars == <<formData, toast>>

\* ------------------------------------------------------------- the table
\* ctx.db.get(id): the document with that id, or null.
NoDoc == [_id |-> 0]
DbGet(tbl, id) ==
    IF \E d \in tbl : d._id = id
    THEN CHOOSE d \in tbl : d._id = id
    ELSE NoDoc

\* ctx.db.delete(id)
DbDelete(tbl, id) == {d \in tbl : d._id # id}

NewDocSwapped(userId, args, id) ==
    [_id |-> id, _creationTime |-> id, userId |-> userId,
     type |-> args.type, amount |-> args.amount, category |-> args.description,
     description |-> args.category, date |-> args.date]

\* The document ctx.db.insert stores for addTransaction: the caller's
\* identity and the five arguments, plus the system fields.
NewDoc(userId, args, id) ==
    [_id |-> id, _creationTime |-> id, userId |-> userId,
     type |-> args.type, amount |-> args.amount, category |-> args.category,
     description |-> args.description, date |-> args.date]

\* .withIndex("by_user", q => q.eq("userId", userId)): the index range.
ByUser(tbl, userId) == {d \in tbl : d.userId = userId}

\* .collect() of an index range in the index's own (ascending) order: within
\* one userId the by_user index is ordered by _creationTime.
RECURSIVE CollectAsc(_)
CollectAsc(S) ==
    IF S = {} THEN <<>>
    ELSE LET first == CHOOSE d \in S :
                        \A e \in S : d._creationTime <= e._creationTime
         IN <<first>> \o CollectAsc(S \ {first})

\* .order("desc").collect()
RECURSIVE Reverse(_)
Reverse(s) == IF s = <<>> THEN <<>> ELSE Reverse(Tail(s)) \o <<Head(s)>>

CollectDescAscending(S) == CollectAsc(S)

CollectDesc(S) == Reverse(CollectAsc(S))

\* ------------------------------------------------------------ handlers
\* Every handler yields the table after the call, whether the call returned
\* (ok) or threw, and the value returned or the message of the error thrown.
AddTransactionNoAuth(tbl, userId, args, id) ==
    [table |-> tbl \cup {NewDoc(userId, args, id)}, ok |-> TRUE, value |-> id]

\* addTransaction.handler
AddTransaction(tbl, userId, args, id) ==
    IF userId = None
    THEN [table |-> tbl, ok |-> FALSE, value |-> Unauthenticated]
    ELSE [table |-> tbl \cup {NewDoc(userId, args, id)}, ok |-> TRUE,
          value |-> id]

GetTransactionsThrowing(tbl, userId) ==
    IF userId = None
    THEN [table |-> tbl, ok |-> FALSE, value |-> Unauthenticated]
    ELSE [table |-> tbl, ok |-> TRUE, value |-> CollectDesc(ByUser(tbl, userId))]

\* getTransactions.handler
GetTransactions(tbl, userId) ==
    IF userId = None
    THEN [table |-> tbl, ok |-> TRUE, value |-> <<>>]
    ELSE [table |-> tbl, ok |-> TRUE, value |-> CollectDesc(ByUser(tbl, userId))]

RECURSIVE SumOfTypeUnfiltered(_, _)
SumOfTypeUnfiltered(txs, kind) ==
    IF txs = <<>> THEN 0
    ELSE Head(txs).amount + SumOfTypeUnfiltered(Tail(txs), kind)

\* transactions.filter(t => t.type === kind).reduce((sum, t) => sum + t.amount, 0)
RECURSIVE SumOfType(_, _)
SumOfType(txs, kind) ==
    IF txs = <<>> THEN 0
    ELSE (IF Head(txs).type = kind THEN Head(txs).amount ELSE 0)
         + SumOfType(Tail(txs), kind)

\* getTransactionSummary.handler
GetTransactionSummary(tbl, userId) ==
    IF userId = None
    THEN [table |-> tbl, ok |-> TRUE,
          value |-> [totalIncome |-> 0, totalExpenses |-> 0, balance |-> 0]]
    ELSE LET transactions == CollectAsc(ByUser(tbl, userId))
             totalIncome == SumOfType(transactions, "income")
             totalExpenses == SumOfType(transactions, "expense")
         IN [table |-> tbl, ok |-> TRUE,
             value |-> [totalIncome |-> totalIncome,
                        totalExpenses |-> totalExpenses,
                        balance |-> totalIncome - totalExpenses]]

DeleteDeniedNoOwnerCheck(transaction, userId) == transaction = NoDoc

DeleteDeniedNever(transaction, userId) == FALSE

\* !transaction || transaction.userId !== userId
DeleteDenied(transaction, userId) ==
    transaction = NoDoc \/ transaction.userId # userId

DeleteTransactionKeeping(tbl, userId, id) ==
    IF userId = None
    THEN [table |-> tbl, ok |-> FALSE, value |-> Unauthenticated]
    ELSE IF DeleteDenied(DbGet(tbl, id), userId)
         THEN [table |-> tbl, ok |-> FALSE, value |-> NotFoundOrUnauthorized]
         ELSE [table |-> tbl, ok |-> TRUE, value |-> "void"]

\* deleteTransaction.handler
DeleteTransaction(tbl, userId, id) ==
    IF userId = None
    THEN [table |-> tbl, ok |-> FALSE, value |-> Unauthenticated]
    ELSE LET transaction == DbGet(tbl, id)
         IN IF DeleteDenied(transaction, userId)
            THEN [table |-> tbl, ok |-> FALSE, value |-> NotFoundOrUnauthorized]
            ELSE [table |-> DbDelete(tbl, id), ok |-> TRUE, value |-> "void"]

\* ---------------------------------------------------------------- form
\* useState initial value, and the draft handleSubmit resets to.
EmptyForm ==
    [type |-> "expense", amount |-> <<>>, category |-> "", description |-> "",
     date |-> Today]

\* A JavaScript number: NaN, an infinity, or sign * mant * 10^exp.
NaN == [cls |-> "NaN"]
Infinity(neg) == [cls |-> "Infinity", neg |-> neg]
Number(neg, mant, exp) == [cls |-> "number", neg |-> neg, mant |-> mant, exp |-> exp]

DigitChars == <<"0", "1", "2", "3", "4", "5", "6", "7", "8", "9">>
IsDigit(c) == \E i \in DOMAIN DigitChars : DigitChars[i] = c
DigitVal(c) == (CHOOSE i \in DOMAIN DigitChars : DigitChars[i] = c) - 1

Drop(s, n) == SubSeq(s, n + 1, Len(s))
IsPrefix(p, s) == Len(p) <= Len(s) /\ SubSeq(s, 1, Len(p)) = p

\* Leading white space is skipped.
RECURSIVE TrimStart(_)
TrimStart(s) ==
    IF s # <<>> /\ Head(s) = " " THEN TrimStart(Tail(s)) ELSE s

\* The longest prefix made of decimal digits.
RECURSIVE DigitRun(_)
DigitRun(s) ==
    IF s # <<>> /\ IsDigit(Head(s)) THEN <<Head(s)>> \o DigitRun(Tail(s)) ELSE <<>>

\* The natural number a digit sequence denotes.
RECURSIVE ToNat(_)
ToNat(ds) ==
    IF ds = <<>> THEN 0
    ELSE 10 * ToNat(SubSeq(ds, 1, Len(ds) - 1)) + DigitVal(ds[Len(ds)])

RECURSIVE Pow10(_)
Pow10(n) == IF n = 0 THEN 1 ELSE 10 * Pow10(n - 1)

RECURSIVE NumDigits(_)
NumDigits(n) == IF n < 10 THEN 1 ELSE 1 + NumDigits(n \div 10)

\* mant * 10^exp without trailing zeros in mant.
RECURSIVE Normalize(_, _, _)
Normalize(neg, mant, exp) ==
    IF mant = 0 THEN Number(neg, 0, 0)
    ELSE IF mant % 10 = 0 THEN Normalize(neg, mant \div 10, exp + 1)
    ELSE Number(neg, mant, exp)

\* Rounding of the decimal value mant * 10^exp to an IEEE-754 double: beyond
\* the largest double (1.797...e308) it is an infinity, below half the
\* smallest subnormal (2.470...e-324) it is zero.  The mantissa is compared
\* on its four leading digits.
ToDouble(neg, mant, exp) ==
    IF mant = 0 THEN Number(neg, 0, 0)
    ELSE LET nd == NumDigits(mant)
             dexp == exp + nd - 1
             lead4 == IF nd <= 4 THEN mant * Pow10(4 - nd)
                      ELSE mant \div Pow10(nd - 4)
         IN IF dexp > 308 \/ (dexp = 308 /\ lead4 >= 1798) THEN Infinity(neg)
            ELSE IF dexp < -324 \/ (dexp = -324 /\ lead4 <= 2470)
                 THEN Number(neg, 0, 0)
            ELSE Normalize(neg, mant, exp)

InfinityLiteral == <<"I", "n", "f", "i", "n", "i", "t", "y">>

\* The exponent after the letter e: an optional sign and digits (0 when no
\* digit follows, the literal then ends before the e).
SignedDigits(a) ==
    IF a # <<>> /\ Head(a) = "-" THEN 0 - ToNat(DigitRun(Tail(a)))
    ELSE IF a # <<>> /\ Head(a) = "+" THEN ToNat(DigitRun(Tail(a)))
    ELSE ToNat(DigitRun(a))

\* The exponent part of a literal, if the rest of the text starts with one.
ExponentPart(rest) ==
    IF rest # <<>> /\ Head(rest) \in {"e", "E"} THEN SignedDigits(Tail(rest))
    ELSE 0

\* A literal needs a digit before or after the point.
ParseExponent(neg, int, frac, rest) ==
    IF int = <<>> /\ frac = <<>> THEN NaN
    ELSE ToDouble(neg, ToNat(int \o frac), ExponentPart(rest) - Len(frac))

\* The integer digits are read; a point and fraction digits may follow.
ParseFraction(neg, int, rest) ==
    IF rest # <<>> /\ Head(rest) = "."
    THEN ParseExponent(neg, int, DigitRun(Tail(rest)),
                       Drop(rest, 1 + Len(DigitRun(Tail(rest)))))
    ELSE ParseExponent(neg, int, <<>>, rest)

\* The sign is read: Infinity, or a decimal literal.
ParseUnsigned(neg, u) ==
    IF IsPrefix(InfinityLiteral, u) THEN Infinity(neg)
    ELSE ParseFraction(neg, DigitRun(u), Drop(u, Len(DigitRun(u))))

ParseSigned(t) ==
    IF t # <<>> /\ Head(t) \in {"+", "-"}
    THEN ParseUnsigned(Head(t) = "-", Tail(t))
    ELSE ParseUnsigned(FALSE, t)

\* parseFloat(text): the value of the longest prefix of the trimmed text that
\* is a decimal literal, NaN when there is none.
ParseFloat(text) == ParseSigned(TrimStart(text))

\* isNaN(amount)
IsNaN(a) == a.cls = "NaN"
\* amount <= 0
LeqZero(a) ==
    \/ a.cls = "Infinity" /\ a.neg
    \/ a.cls = "number" /\ (a.neg \/ a.mant = 0)

ToastFillAll == "Please fill in all fields"
ToastInvalidAmount == "Please enter a valid amount"
ToastAdded == "Transaction added successfully!"
ToastAddFailed == "Failed to add transaction"

\* handleSubmit for the draft fd, sent with the session identity caller: the
\* draft and toast it leaves, whether it called addTransaction and with what
\* arguments, and the table after it.
HandleSubmit(fd, tbl, caller, id) ==
    IF fd.amount = <<>> \/ fd.category = "" \/ fd.description = ""
    THEN [formData |-> fd, toast |-> ToastFillAll, called |-> FALSE,
          table |-> tbl, ok |-> FALSE]
    ELSE LET amount == ParseFloat(fd.amount)
         IN IF IsNaN(amount) \/ LeqZero(amount)
            THEN [formData |-> fd, toast |-> ToastInvalidAmount,
                  called |-> FALSE, table |-> tbl, ok |-> FALSE]
            ELSE LET args == [type |-> fd.type, amount |-> amount,
                              category |-> fd.category,
                              description |-> fd.description, date |-> fd.date]
                     r == AddTransaction(tbl, caller, args, id)
                 IN IF r.ok
                    THEN [formData |-> EmptyForm, toast |-> ToastAdded,
                          called |-> TRUE, args |-> args, table |-> r.table,
                          ok |-> TRUE]
                    ELSE [formData |-> fd, toast |-> ToastAddFailed,
                          called |-> TRUE, args |-> args, table |-> r.table,
                          ok |-> FALSE]

\* ------------------------------------------------- calls in flight
Idle == [pc |-> "idle"]

\* ------------------------------------------------------------- actions
Init ==
    /\ table = {}
    /\ nextId = 0
    /\ inserted = <<>>
    /\ deleted = {}
    /\ last = [op |-> "none", caller |-> None, ok |-> TRUE]
    /\ formData = EmptyForm
    /\ toast = "none"
    /\ calls = [p \in Procs |-> Idle]

\* The addTransaction mutation served for caller with arguments args.
AddCall(caller, args) ==
    LET r == AddTransaction(table, caller, args, nextId + 1)
    IN /\ table' = r.table
       /\ nextId' = IF r.ok THEN nextId + 1 ELSE nextId
       /\ inserted' = IF r.ok THEN Append(inserted, r.value) ELSE inserted
       /\ last' = [op |-> "add", caller |-> caller, args |-> args,
                   ok |-> r.ok, value |-> r.value]
       /\ UNCHANGED <<deleted, formVars, calls>>

\* A client calls the addTransaction mutation.
Add ==
    \E caller \in Callers, args \in AddArgs :
        /\ nextId < MaxTx
        /\ AddCall(caller, args)

\* A client runs the getTransactions query.
List ==
    \E caller \in Callers :
        LET r == GetTransactions(table, caller)
        IN /\ table' = r.table
           /\ last' = [op |-> "list", caller |-> caller, ok |-> r.ok,
                       value |-> r.value]
           /\ UNCHANGED <<nextId, inserted, deleted, formVars, calls>>

\* A client runs the getTransactionSummary query.
Summary ==
    \E caller \in Callers :
        LET r == GetTransactionSummary(table, caller)
        IN /\ table' = r.table
           /\ last' = [op |-> "summary", caller |-> caller, ok |-> r.ok,
                       value |-> r.value]
           /\ UNCHANGED <<nextId, inserted, deleted, formVars, calls>>

\* A client calls the deleteTransaction mutation with some id.
Delete ==
    \E caller \in Callers, id \in 1..MaxTx :
        LET r == DeleteTransaction(table, caller, id)
        IN /\ table' = r.table
           /\ deleted' = IF r.ok THEN deleted \cup {id} ELSE deleted
           /\ last' = [op |-> "delete", caller |-> caller, id |-> id,
                       ok |-> r.ok, value |-> r.value]
           /\ UNCHANGED <<nextId, inserted, formVars, calls>>

Next == Add \/ List \/ Summary \/ Delete

Spec == Init /\ [][Next]_vars

\* ------------------------------------------------------- form actions
\* onChange of the type <select>
SetType ==
    \E t \in Types :
        /\ formData' = [formData EXCEPT !.type = t]
        /\ last' = [op |-> "edit"]
        /\ UNCHANGED <<table, nextId, inserted, deleted, toast, calls>>

\* onChange of the amount <input>
SetAmount ==
    \E text \in AmountTexts :
        /\ formData' = [formData EXCEPT !.amount = text]
        /\ last' = [op |-> "edit"]
        /\ UNCHANGED <<table, nextId, inserted, deleted, toast, calls>>

\* onChange of the category <select>, whose options follow the draft's type
SetCategory ==
    \E c \in {""} \cup (IF formData.type = "income" THEN IncomeCategories
                        ELSE ExpenseCategories) :
        /\ formData' = [formData EXCEPT !.category = c]
        /\ last' = [op |-> "edit"]
        /\ UNCHANGED <<table, nextId, inserted, deleted, toast, calls>>

\* onChange of the date <input>
SetDate ==
    \E d \in Dates :
        /\ formData' = [formData EXCEPT !.date = d]
        /\ last' = [op |-> "edit"]
        /\ UNCHANGED <<table, nextId, inserted, deleted, toast, calls>>

\* onChange of the description <input>
SetDescription ==
    \E d \in DescriptionTexts :
        /\ formData' = [formData EXCEPT !.description = d]
        /\ last' = [op |-> "edit"]
        /\ UNCHANGED <<table, nextId, inserted, deleted, toast, calls>>

\* onSubmit of the form
Submit ==
    \E caller \in Callers :
        LET r == HandleSubmit(formData, table, caller, nextId + 1)
        IN /\ r.called => nextId < MaxFormTx
           /\ formData' = r.formData
           /\ toast' = r.toast
           /\ table' = r.table
           /\ nextId' = IF r.ok THEN nextId + 1 ELSE nextId
           /\ inserted' = IF r.ok THEN Append(inserted, nextId + 1) ELSE inserted
           /\ last' = [op |-> "submit", caller |-> caller, draft |-> formData,
                       called |-> r.called, ok |-> r.ok]
           /\ UNCHANGED <<deleted, calls>>

FormNext ==
    SetType \/ SetAmount \/ SetCategory \/ SetDate \/ SetDescription \/ Submit

SpecForm == Init /\ [][FormNext]_vars

\* --------------------------------------- racing deleteTransaction calls
\* Documents for the race to be about.
ConcAdd ==
    \E caller \in Users, args \in ConcAddArgs :
        /\ nextId < MaxConcTx
        /\ AddCall(caller, args)

\* A client sends a deleteTransaction call.
DeleteCall ==
    \E p \in Procs, caller \in Callers, id \in 1..MaxConcTx :
        /\ calls[p].pc = "idle"
        /\ calls' = [calls EXCEPT ![p] =
                        [pc |-> "called", caller |-> caller, id |-> id,
                         runs |-> 0]]
        /\ UNCHANGED <<table, nextId, inserted, deleted, last, formVars>>

\* The handler runs against the table as it is now.  A handler that throws
\* ends the call; one that returns leaves a delete to be committed, together
\* with the document it has read.
DeleteExecute ==
    \E p \in Procs :
        /\ calls[p].pc = "called"
        /\ LET c == calls[p]
               r == DeleteTransaction(table, c.caller, c.id)
           IN calls' = [calls EXCEPT ![p] =
                 IF r.ok
                 THEN [pc |-> "executed", caller |-> c.caller, id |-> c.id,
                       runs |-> c.runs + 1, read |-> DbGet(table, c.id)]
                 ELSE [pc |-> "done", caller |-> c.caller, id |-> c.id,
                       runs |-> c.runs + 1, ok |-> FALSE, value |-> r.value]]
        /\ UNCHANGED <<table, nextId, inserted, deleted, last, formVars>>

\* The mutation commits if the document it read is still what it read, and
\* is run again from the start otherwise.
DeleteCommit ==
    \E p \in Procs :
        /\ calls[p].pc = "executed"
        /\ LET c == calls[p]
           IN IF DbGet(table, c.id) = c.read
              THEN /\ table' = DbDelete(table, c.id)
                   /\ deleted' = deleted \cup {c.id}
                   /\ calls' = [calls EXCEPT ![p] =
                         [pc |-> "done", caller |-> c.caller, id |-> c.id,
                          runs |-> c.runs, ok |-> TRUE, value |-> "void"]]
              ELSE /\ calls' = [calls EXCEPT ![p] =
                         [pc |-> "called", caller |-> c.caller, id |-> c.id,
                          runs |-> c.runs]]
                   /\ UNCHANGED <<table, deleted>>
        /\ UNCHANGED <<nextId, inserted, last, formVars>>

\* The client has its answer and may call again.
DeleteReturn ==
    \E p \in Procs :
        /\ calls[p].pc = "done"
        /\ calls' = [calls EXCEPT ![p] = Idle]
        /\ UNCHANGED <<table, nextId, inserted, deleted, last, formVars>>

ConcNext == ConcAdd \/ DeleteCall \/ DeleteExecute \/ DeleteCommit \/ DeleteReturn

SpecConc == Init /\ [][ConcNext]_vars

TypeOK ==
    /\ nextId \in 0..MaxTx
    /\ Len(inserted) = nextId
    /\ \A d \in table : d._id \in 1..nextId
\* ------------------------------------------------------------ properties
\* Sum of amount over a set of documents, independent of any order.
RECURSIVE SetSum(_)
SetSum(S) ==
    IF S = {} THEN 0
    ELSE LET d == CHOOSE x \in S : TRUE IN d.amount + SetSum(S \ {d})

Owned(u) == {d \in table : d.userId = u}
OfType(S, kind) == {d \in S : d.type = kind}
\* Position of an id in the insertion history (0 when never inserted).
InsertPos(id) ==
    IF \E i \in DOMAIN inserted : inserted[i] = id
    THEN CHOOSE i \in DOMAIN inserted : inserted[i] = id
    ELSE 0
Ids(seq) == {seq[i]._id : i \in DOMAIN seq}

\* C1: a summary served to an authenticated caller has totalIncome equal to
\* the sum of amount over the caller's stored income documents, totalExpenses
\* the sum over the caller's stored expense documents, and balance their
\* difference; all three are 0 when the caller owns nothing, and documents of
\* other users do not contribute.
C1_SummaryIsSumOfOwnRecords ==
    (last.op = "summary" /\ last.caller \in Users) =>
        /\ last.ok
        /\ last.value.totalIncome = SetSum(OfType(Owned(last.caller), "income"))
        /\ last.value.totalExpenses = SetSum(OfType(Owned(last.caller), "expense"))
        /\ last.value.balance = last.value.totalIncome - last.value.totalExpenses
        /\ (Owned(last.caller) = {} =>
                last.value = [totalIncome |-> 0, totalExpenses |-> 0, balance |-> 0])

\* A summary for a caller owning an income and an expense document, while
\* another user owns a document too.
C1_Witness ==
    /\ last.op = "summary" /\ last.caller \in Users
    /\ OfType(Owned(last.caller), "income") # {}
    /\ OfType(Owned(last.caller), "expense") # {}
    /\ \E d \in table : d.userId # last.caller
    /\ last.value.totalIncome = 3 /\ last.value.totalExpenses = 3
    /\ last.value.balance = 0

\* C2: a delete by an authenticated caller on a document owned by someone
\* else, or on an id no stored document has, throws the same error
\* (NotFoundOrUnauthorized) and leaves the table as it was, so that every
\* user's list is what it was before the attempt.
C2_FailedDeleteSameErrorNoChange ==
    [][(/\ last'.op = "delete"
        /\ last'.caller \in Users
        /\ \/ ~(\E d \in table : d._id = last'.id)
           \/ \E d \in table : d._id = last'.id /\ d.userId # last'.caller)
       => (/\ ~last'.ok
           /\ last'.value = NotFoundOrUnauthorized
           /\ table' = table
           /\ \A u \in Users :
                GetTransactions(table', u).value = GetTransactions(table, u).value)]_vars

\* A refused delete on a document that exists and belongs to another user.
C2_Witness ==
    /\ last.op = "delete" /\ last.caller \in Users /\ ~last.ok
    /\ \E d \in table : d._id = last.id /\ d.userId # last.caller

\* C3: an add by an authenticated caller returns the id of a document that
\* did not exist before, and the caller's list then holds a document with
\* that id whose type, amount, category, description and date are the
\* arguments and whose userId is the caller.
C3_AddedRecordListedWithArgs ==
    (last.op = "add" /\ last.caller \in Users) =>
        /\ last.ok
        /\ Cardinality({i \in DOMAIN inserted : inserted[i] = last.value}) = 1
        /\ inserted[Len(inserted)] = last.value
        /\ Cardinality({d \in table : d._id = last.value}) = 1
        /\ LET listed == GetTransactions(table, last.caller).value
           IN \E i \in DOMAIN listed :
                /\ listed[i]._id = last.value
                /\ listed[i].userId = last.caller
                /\ listed[i].type = last.args.type
                /\ listed[i].amount = last.args.amount
                /\ listed[i].category = last.args.category
                /\ listed[i].description = last.args.description
                /\ listed[i].date = last.args.date

\* An add by one user into a table that already holds another user's document.
C3_Witness ==
    /\ last.op = "add" /\ last.ok
    /\ \E d \in table : d.userId # last.caller
    /\ \E d \in table : d._id = last.value /\ d.userId = last.caller

\* C4: once a delete has succeeded on an id, no stored document and no
\* caller's list has that id, and no later delete on it succeeds: for a
\* caller with an identity it throws NotFoundOrUnauthorized.
C4_DeletedNeverReappears ==
    /\ [](/\ \A d \in table : d._id \notin deleted
          /\ \A u \in Callers : Ids(GetTransactions(table, u).value) \cap deleted = {}
          /\ (last.op = "list" => Ids(last.value) \cap deleted = {}))
    /\ [][(last'.op = "delete" /\ last'.id \in deleted)
          => (/\ ~last'.ok
              /\ table' = table
              /\ (last'.caller \in Users => last'.value = NotFoundOrUnauthorized))]_vars

\* A delete by the former owner on an id it has deleted before, refused.
C4_Witness ==
    /\ last.op = "delete" /\ last.id \in deleted /\ ~last.ok
    /\ last.caller \in Users
    /\ last.value = NotFoundOrUnauthorized
    /\ table # {}

\* C5: with no caller identity, list returns the empty sequence and summary
\* returns all zeros, whatever the table holds, and neither throws.
C5_UnauthenticatedReadsAreEmpty ==
    /\ GetTransactions(table, None) = [table |-> table, ok |-> TRUE, value |-> <<>>]
    /\ GetTransactionSummary(table, None) =
         [table |-> table, ok |-> TRUE,
          value |-> [totalIncome |-> 0, totalExpenses |-> 0, balance |-> 0]]
    /\ (last.op = "list" /\ last.caller = None) => (last.ok /\ last.value = <<>>)
    /\ (last.op = "summary" /\ last.caller = None) =>
          (last.ok /\ last.value = [totalIncome |-> 0, totalExpenses |-> 0,
                                    balance |-> 0])

\* A list served without identity while the table holds documents of both types.
C5_Witness ==
    /\ last.op = "list" /\ last.caller = None
    /\ OfType(table, "income") # {} /\ OfType(table, "expense") # {}

\* C6: with no caller identity, add and delete throw Unauthenticated and the
\* table is left as it was.
C6_UnauthenticatedWritesRefused ==
    [][(last'.op \in {"add", "delete"} /\ last'.caller = None)
       => (/\ ~last'.ok
           /\ last'.value = Unauthenticated
           /\ table' = table
           /\ nextId' = nextId)]_vars

\* A delete without identity that names a stored document, which is still there.
C6_Witness ==
    /\ last.op = "delete" /\ last.caller = None
    /\ \E d \in table : d._id = last.id

\* C7: a list served to an authenticated caller holds exactly the stored
\* documents of that caller, each once, and a document inserted later stands
\* before one inserted earlier, whatever their dates.
C7_ListOwnRecordsNewestFirst ==
    (last.op = "list" /\ last.caller \in Users) =>
        /\ last.ok
        /\ {last.value[i] : i \in DOMAIN last.value} = Owned(last.caller)
        /\ Len(last.value) = Cardinality(Owned(last.caller))
        /\ \A i, j \in DOMAIN last.value :
             InsertPos(last.value[i]._id) > InsertPos(last.value[j]._id) => i < j

\* A list of two documents where the later-inserted one carries the earlier
\* date, while another user owns a document as well.
C7_Witness ==
    /\ last.op = "list" /\ last.caller \in Users
    /\ Len(last.value) = 2
    /\ last.value[1].date = "2024-03-01" /\ last.value[2].date = "2024-03-02"
    /\ \E d \in table : d.userId # last.caller

\* C9: every stored document has an amount strictly greater than 0.
C9_StoredAmountsPositive == \A d \in table : d.amount > 0
\* C8: when two deleteTransaction calls on the same id by callers with an
\* identity are in flight together and both have been answered, they have not
\* both succeeded, and if one succeeded the other threw
\* NotFoundOrUnauthorized.
C8_ConcurrentDeletesAtMostOneSucceeds ==
    \A p, q \in Procs :
        (/\ p # q
         /\ calls[p].pc = "done" /\ calls[q].pc = "done"
         /\ calls[p].id = calls[q].id
         /\ calls[p].caller \in Users /\ calls[q].caller \in Users)
        => /\ ~(calls[p].ok /\ calls[q].ok)
           /\ (calls[p].ok => calls[q].value = NotFoundOrUnauthorized)

\* Both calls came from the document's owner and both read the document and
\* passed the owner check; one committed, the other lost the race, was run
\* again and was refused.
C8_Witness ==
    \E p, q \in Procs :
        /\ p # q
        /\ calls[p].pc = "done" /\ calls[q].pc = "done"
        /\ calls[p].id = calls[q].id
        /\ calls[p].caller = calls[q].caller /\ calls[p].caller \in Users
        /\ calls[p].ok /\ ~calls[q].ok
        /\ calls[q].runs = 2
        /\ calls[q].value = NotFoundOrUnauthorized

\* The amount text parses to a finite number greater than 0.
ParsesToFinitePositive(text) ==
    LET a == ParseFloat(text)
    IN a.cls = "number" /\ ~a.neg /\ a.mant > 0

\* C10: handleSubmit calls addTransaction only for a draft whose amount,
\* category and description are non-empty and whose amount parses to a finite
\* number greater than 0; for any other draft it shows a validation message,
\* makes no call and leaves the draft as it was.
C10_SubmitCallsAddOnlyForValidDraft ==
    (last.op = "submit") =>
        LET valid == /\ last.draft.amount # <<>>
                     /\ last.draft.category # ""
                     /\ last.draft.description # ""
                     /\ ParsesToFinitePositive(last.draft.amount)
        IN /\ last.called => valid
           /\ ~valid => /\ ~last.called
                        /\ toast \in {ToastFillAll, ToastInvalidAmount}
                        /\ formData = last.draft
====
